---- MODULE Spec2Model ----
(***************************************************************************)
(* Model of libs/utils/include/utils/vector.h: the untyped buffer core     *)
(* TrivialVectorBase<ALLOCATOR>, the typed container utils::vector<T, A>   *)
(* built on it, and the memory regions they obtain from the allocator.     *)
(*                                                                         *)
(* A pointer is modelled as a region identity plus an item index; the item *)
(* size sizeof(T) is abstracted to one cell per item.  A region is what    *)
(* one call of ALLOCATOR::alloc returned.  Memory the code may not access  *)
(* (a released region, cells past the end of a region, the null pointer)   *)
(* reads as an arbitrary value, and every such access is recorded as the   *)
(* fault of the operation that made it.                                    *)
(*                                                                         *)
(* insert, erase and TrivialVectorBase::operator=(&&) have no return       *)
(* statement; the value they hand back is indeterminate and is not part of *)
(* the state.                                                              *)
(*                                                                         *)
(* The free functions insert_sorted and insert_sorted_unique work on a     *)
(* std::vector<T>, modelled as a sequence of items ordered by operator<.   *)
(***************************************************************************)
EXTENDS Integers, Sequences, FiniteSets, TLC

\* ---------------------------------------------------------------- bounds
MaxCount == 3         \* largest size the one-object program drives its vector to
MaxRegions == 3       \* allocations made during one run
MaxPairCount == 2     \* largest size the two-object program drives a vector to
MaxPairRegions == 2   \* allocations made during one run of the two-object program
MaxSortedLen == 3     \* longest std::vector handed to the sorted-insert helpers
MaxKey == 3           \* the items of the sorted-insert helpers have keys 1..MaxKey

\* size_type is uint32_t; the model keeps the wrap-around at a reduced width.
SizeBits == 8
SizeModulus == 2 ^ SizeBits

Inst == {1, 2}          \* the vector objects of the program
Values == {1, 2}        \* the element values
Allocators == {1, 2}    \* the allocator instances
Regions == 1..MaxRegions

NULL == 0             \* mBegin = nullptr
Uninit == 0           \* a cell no value has been written to
DefaultAllocator == 1 \* ALLOCATOR{} / allocator_type()

Min(x, y) == IF x < y THEN x ELSE y

\* ------------------------------------------------------------ the heap
UnusedRegion == [st |-> "unused", data |-> <<>>, frees |-> 0]

\* The number of regions handed out so far.
Allocated(h) == Cardinality({r \in Regions : h[r].st # "unused"})

HasFresh(h) == \E r \in Regions : h[r].st = "unused"

FreshRegion(h) == CHOOSE r \in Regions :
                      /\ h[r].st = "unused"
                      /\ \A q \in Regions : q < r => h[q].st # "unused"

\* ALLOCATOR::alloc(n items): a fresh region of n uninitialised cells.  What a
\* zero-byte request returns is left to the allocator: null or a fresh block.
alloc(h, n) ==
    IF ~HasFresh(h) THEN {}
    ELSE LET r == FreshRegion(h)
             block == [h |-> [h EXCEPT ![r] = [st |-> "live",
                                                data |-> [j \in 1..n |-> Uninit],
                                                frees |-> 0]],
                       addr |-> r]
         IN  IF n = 0 THEN {block, [h |-> h, addr |-> NULL]} ELSE {block}

\* ALLOCATOR::free(p): null is a no-op; the contents of a released region are
\* gone.  Releasing a region again is counted (the count stops at 2).
free(h, p) ==
    IF p = NULL THEN h
    ELSE [h EXCEPT ![p] = [st |-> "released", data |-> <<>>,
                           frees |-> Min(@.frees + 1, 2)]]

FreeFault(h, p) ==
    IF p # NULL /\ h[p].st = "released" THEN "double_free" ELSE "none"

\* Cell i (0-based) of region p holds a value the code may read.
CellDefined(h, p, i) ==
    /\ p # NULL
    /\ h[p].st = "live"
    /\ i >= 0 /\ i < Len(h[p].data)
    /\ h[p].data[i + 1] \in Values

\* The values a read of cell i of region p can produce.
Reads(h, p, i) == IF CellDefined(h, p, i) THEN {h[p].data[i + 1]} ELSE Values

\* The sequences a read of cells [lo, lo + k) of region p can produce.
Load(h, p, lo, k) ==
    {s \in [1..k -> Values] : \A j \in 1..k : s[j] \in Reads(h, p, lo + j - 1)}

\* Writing vals to cells [lo, lo + Len(vals)) of region p.  Writes that fall
\* outside a live region change no cell of the model.
Store(h, p, lo, vals) ==
    IF p = NULL \/ h[p].st # "live" THEN h
    ELSE [h EXCEPT ![p].data =
             [j \in 1..Len(@) |-> IF j - 1 >= lo /\ j - 1 < lo + Len(vals)
                                  THEN vals[j - lo] ELSE @[j]]]

\* The fault of accessing cells [lo, hi) of region p.
AccessFault(h, p, lo, hi) ==
    IF lo >= hi THEN "none"
    ELSE IF p = NULL THEN "null_deref"
    ELSE IF h[p].st # "live" THEN "use_after_free"
    ELSE IF hi > Len(h[p].data) \/ lo < 0 THEN "out_of_bounds"
    ELSE "none"

FirstFault(f, g) == IF f # "none" THEN f ELSE g

\* ------------------------------------------------ TrivialVectorBase state
\* mBegin = nullptr, mItemCount = 0, mCapacity = 0, mAllocator{}
EmptyBase(al) == [alive |-> TRUE, mBegin |-> NULL, mItemCount |-> 0,
                  mCapacity |-> 0, mAllocator |-> al]

\* The storage of an object outside its lifetime.
Dead == [alive |-> FALSE, mBegin |-> NULL, mItemCount |-> 0,
         mCapacity |-> 0, mAllocator |-> DefaultAllocator]

size(this) == this.mItemCount
capacity(this) == this.mCapacity

\* ------------------------------------------- TrivialVectorBase operations
\* Each operation yields the set of its outcomes [v, h, fault]: the object
\* after the call, the heap after the call, and the first invalid memory
\* access the call made ("none" if it made none).

\* set_capacity without the memcpy of the old items into the new region.
set_capacity_NoCopy(this, h, n) ==
    IF n = this.mCapacity THEN {[v |-> this, h |-> h, fault |-> "none"]}
    ELSE {[v |-> [this EXCEPT !.mBegin = a.addr, !.mCapacity = n],
           h |-> free(a.h, this.mBegin),
           fault |-> FreeFault(h, this.mBegin)]
          : a \in alloc(h, n)}

\* set_capacity without mAllocator.free(mBegin).
set_capacity_NoFree(this, h, n) ==
    IF n = this.mCapacity THEN {[v |-> this, h |-> h, fault |-> "none"]}
    ELSE LET k == IF this.mItemCount < n THEN this.mItemCount ELSE n
         IN  {[v |-> [this EXCEPT !.mBegin = a.addr, !.mCapacity = n],
               h |-> Store(a.h, a.addr, 0, s),
               fault |-> AccessFault(h, this.mBegin, 0, k)]
              : a \in alloc(h, n),
                s \in Load(h, this.mBegin, 0, k)}

set_capacity(this, h, n) ==
    IF n = this.mCapacity THEN {[v |-> this, h |-> h, fault |-> "none"]}
    ELSE LET k == IF this.mItemCount < n THEN this.mItemCount ELSE n
         IN  {[v |-> [this EXCEPT !.mBegin = a.addr, !.mCapacity = n],
               h |-> free(Store(a.h, a.addr, 0, s), this.mBegin),
               fault |-> FirstFault(AccessFault(h, this.mBegin, 0, k),
                                    FreeFault(h, this.mBegin))]
              : a \in alloc(h, n),
                s \in Load(h, this.mBegin, 0, k)}

\* The growth computation without the factor 3.
GrowthCapacity_NoFactor(c) == ((c + 1) % SizeModulus) \div 2

GrowthCapacity(c) == ((c * 3 + 1) % SizeModulus) \div 2

\* assert_capacity_slow asking for exactly the requested count.
assert_capacity_slow_Exact(this, h, c) == set_capacity(this, h, c)

assert_capacity_slow(this, h, c) == set_capacity(this, h, GrowthCapacity(c))

\* assert_capacity_for_size taking the slow path also when mCapacity == c.
assert_capacity_for_size_GrowWhenEqual(this, h, c) ==
    LET grown == IF this.mCapacity <= c
                 THEN assert_capacity_slow(this, h, c)
                 ELSE {[v |-> this, h |-> h, fault |-> "none"]}
    IN  {[v |-> [g.v EXCEPT !.mItemCount = c],
          h |-> g.h,
          fault |-> g.fault,
          pos |-> [region |-> g.v.mBegin, index |-> g.v.mItemCount]]
         : g \in grown}

\* Outcomes [v, h, fault, pos]: pos is the returned pointer mBegin + offset,
\* taken after a possible relocation, with the offset of the old item count.
assert_capacity_for_size(this, h, c) ==
    LET grown == IF this.mCapacity < c
                 THEN assert_capacity_slow(this, h, c)
                 ELSE {[v |-> this, h |-> h, fault |-> "none"]}
    IN  {[v |-> [g.v EXCEPT !.mItemCount = c],
          h |-> g.h,
          fault |-> g.fault,
          pos |-> [region |-> g.v.mBegin, index |-> g.v.mItemCount]]
         : g \in grown}

\* swap without the swap of mAllocator.
swap_NoAllocator(this, other) ==
    <<[this EXCEPT !.mBegin = other.mBegin, !.mItemCount = other.mItemCount,
                   !.mCapacity = other.mCapacity],
      [other EXCEPT !.mBegin = this.mBegin, !.mItemCount = this.mItemCount,
                    !.mCapacity = this.mCapacity]>>

\* swap(other): <<this, other>> after the four member swaps.
swap(this, other) ==
    <<[this EXCEPT !.mBegin = other.mBegin, !.mItemCount = other.mItemCount,
                   !.mCapacity = other.mCapacity, !.mAllocator = other.mAllocator],
      [other EXCEPT !.mBegin = this.mBegin, !.mItemCount = this.mItemCount,
                    !.mCapacity = this.mCapacity, !.mAllocator = this.mAllocator]>>

\* TrivialVectorBase(TrivialVectorBase const&) = default: memberwise copy.
CopyConstructBase(rhs) ==
    [alive |-> TRUE, mBegin |-> rhs.mBegin, mItemCount |-> rhs.mItemCount,
     mCapacity |-> rhs.mCapacity, mAllocator |-> rhs.mAllocator]

\* operator=(TrivialVectorBase const&) = default: memberwise assignment.
CopyAssignBase(this, rhs) ==
    [this EXCEPT !.mBegin = rhs.mBegin, !.mItemCount = rhs.mItemCount,
                 !.mCapacity = rhs.mCapacity, !.mAllocator = rhs.mAllocator]

\* A move constructor that copies the members and leaves rhs as it was.
MoveConstructBase_Shallow(rhs) == <<CopyConstructBase(rhs), rhs>>

\* TrivialVectorBase(TrivialVectorBase&&): <<this, rhs>> after the allocator
\* is taken over and the default members are swapped with those of rhs.
MoveConstructBase(rhs) ==
    LET fresh == EmptyBase(rhs.mAllocator)
    IN  <<[fresh EXCEPT !.mBegin = rhs.mBegin, !.mItemCount = rhs.mItemCount,
                        !.mCapacity = rhs.mCapacity],
          [rhs EXCEPT !.mBegin = fresh.mBegin, !.mItemCount = fresh.mItemCount,
                      !.mCapacity = fresh.mCapacity]>>

\* operator=(TrivialVectorBase&&): swap unless this == &rhs (sameObject).
MoveAssignBase(this, rhs, sameObject) ==
    IF ~sameObject THEN swap(this, rhs) ELSE <<this, rhs>>

\* TrivialVectorBase(itemSize, count, allocator): outcomes [v, h].
CountConstructBase(h, count, al) ==
    {[v |-> [alive |-> TRUE, mBegin |-> a.addr, mItemCount |-> count,
             mCapacity |-> count, mAllocator |-> al],
      h |-> a.h] : a \in alloc(h, count)}

\* ~TrivialVectorBase(): the heap after mAllocator.free(mBegin).
DestroyBase(this, h) == free(h, this.mBegin)

\* ------------------------------------------------------ vector operations
\* vector(count, proto, allocator): generate_n writes count copies of proto.
CountConstruct(h, count, proto, al) ==
    {[v |-> c.v,
      h |-> Store(c.h, c.v.mBegin, 0, [j \in 1..count |-> proto]),
      fault |-> "none"] : c \in CountConstructBase(h, count, al)}

push_back(this, h, val) ==
    {[v |-> o.v,
      h |-> Store(o.h, o.pos.region, o.pos.index, <<val>>),
      fault |-> FirstFault(o.fault, AccessFault(o.h, o.pos.region,
                                                o.pos.index, o.pos.index + 1))]
     : o \in assert_capacity_for_size(this, h, (size(this) + 1) % SizeModulus)}

\* const_reference_or_value: value_type when T is a fundamental or a pointer
\* type, const_reference for every other trivially copyable T.
ElementKinds == {"fundamental", "pointer", "class"}

const_reference_or_value(kind) ==
    IF kind \in {"fundamental", "pointer"} THEN "value" ELSE "reference"

\* push_back((*this)[q]) for an element type of the given kind.  A parameter
\* passed by value is read when the call is made.  A parameter passed by
\* reference is read by the assignment *pos = v, after
\* assert_capacity_for_size: it still refers to cell q of the region the
\* container had when the call was made.
push_back_element(this, h, q, kind) ==
    IF const_reference_or_value(kind) = "value"
    THEN UNION {{[o EXCEPT !.fault = FirstFault(AccessFault(h, this.mBegin, q, q + 1), @)]
                 : o \in push_back(this, h, val)}
                : val \in Reads(h, this.mBegin, q)}
    ELSE UNION {{[v |-> o.v,
                  h |-> Store(o.h, o.pos.region, o.pos.index, <<val>>),
                  fault |-> FirstFault(o.fault,
                               FirstFault(AccessFault(o.h, this.mBegin, q, q + 1),
                                          AccessFault(o.h, o.pos.region, o.pos.index,
                                                      o.pos.index + 1)))]
                 : val \in Reads(o.h, this.mBegin, q)}
                : o \in assert_capacity_for_size(this, h,
                                                 (size(this) + 1) % SizeModulus)}

emplace_back(this, h, arg) ==
    {[v |-> o.v,
      h |-> Store(o.h, o.pos.region, o.pos.index, <<arg>>),
      fault |-> FirstFault(o.fault, AccessFault(o.h, o.pos.region,
                                                o.pos.index, o.pos.index + 1))]
     : o \in assert_capacity_for_size(this, h, (size(this) + 1) % SizeModulus)}

pop_back(this) == [this EXCEPT !.mItemCount = (@ - 1) % SizeModulus]

\* insert(position, v), position = begin() + p taken before the call.  When
\* assert_capacity_for_size relocated the buffer, position still points into
\* the old region: move_backward(position, pos, pos + 1) then spans two
\* regions and *position = v writes the old one, so the cells [0, old size]
\* of the new region end up with arbitrary contents.
insert(this, h, p, val) ==
    UNION {
      IF o.pos.region = this.mBegin
      THEN {[v |-> o.v,
             h |-> Store(Store(o.h, o.pos.region, p + 1, s),
                         o.pos.region, p, <<val>>),
             fault |-> FirstFault(o.fault, AccessFault(o.h, o.pos.region, p,
                                                       o.pos.index + 1))]
            : s \in Load(o.h, o.pos.region, p, o.pos.index - p)}
      ELSE {[v |-> o.v,
             h |-> Store(o.h, o.pos.region, 0, s),
             fault |-> FirstFault(o.fault,
                                  AccessFault(o.h, this.mBegin, p, p + 1))]
            : s \in [1..(o.pos.index + 1) -> Values]}
      : o \in assert_capacity_for_size(this, h, (size(this) + 1) % SizeModulus)}

\* erase(position) moving from position instead of position + 1: the tail
\* stays where it is and the item count drops.
erase_NoShift(this, h, p) ==
    {[v |-> [this EXCEPT !.mItemCount = (@ - 1) % SizeModulus],
      h |-> h,
      fault |-> AccessFault(h, this.mBegin, p, size(this))]}

\* erase(position), position = begin() + p.
erase(this, h, p) ==
    LET n == size(this) - (p + 1)
    IN  {[v |-> [this EXCEPT !.mItemCount = (@ - 1) % SizeModulus],
          h |-> Store(h, this.mBegin, p, s),
          fault |-> AccessFault(h, this.mBegin,
                                IF n > 0 THEN p ELSE size(this), size(this))]
         : s \in Load(h, this.mBegin, p + 1, n)}

\* erase(first, last), first = begin() + f, last = begin() + l.
erase_range(this, h, f, l) ==
    LET n == size(this) - l
    IN  {[v |-> [this EXCEPT !.mItemCount = (@ - (l - f)) % SizeModulus],
          h |-> Store(h, this.mBegin, f, s),
          fault |-> AccessFault(h, this.mBegin,
                                IF n > 0 THEN f ELSE size(this), size(this))]
         : s \in Load(h, this.mBegin, l, n)}

\* clear() that also gives up the buffer.
clear_Reset(this) == EmptyBase(this.mAllocator)

clear(this) == [this EXCEPT !.mItemCount = 0]

\* resize filling from begin() instead of begin() + itemCount.
resize_FillFromStart(this, h, count, val) ==
    LET itemCount == size(this)
    IN  {[v |-> o.v,
          h |-> IF count > itemCount
                THEN Store(o.h, o.v.mBegin, 0, [j \in 1..count |-> val])
                ELSE o.h,
          fault |-> FirstFault(o.fault,
                       IF count > itemCount
                       THEN AccessFault(o.h, o.v.mBegin, 0, count)
                       ELSE "none")]
         : o \in assert_capacity_for_size(this, h, count)}

resize(this, h, count, val) ==
    LET itemCount == size(this)
    IN  {[v |-> o.v,
          h |-> IF count > itemCount
                THEN Store(o.h, o.v.mBegin, itemCount,
                           [j \in 1..(count - itemCount) |-> val])
                ELSE o.h,
          fault |-> FirstFault(o.fault,
                       IF count > itemCount
                       THEN AccessFault(o.h, o.v.mBegin, itemCount, count)
                       ELSE "none")]
         : o \in assert_capacity_for_size(this, h, count)}

reserve(this, h, n) == set_capacity(this, h, n)

shrink_to_fit(this, h) == set_capacity(this, h, size(this))

\* What operator[] reads at 0 .. size() - 1; a cell that cannot be read
\* (unwritten, past the region, released) shows as Uninit.
Elems(v, h) ==
    [j \in 1..v.mItemCount |->
        IF CellDefined(h, v.mBegin, j - 1) THEN h[v.mBegin].data[j] ELSE Uninit]

\* ------------------------------------------------- sorted-insert helpers
\* The items T of the std::vector<T>: operator< orders them by their key, so
\* two items with the same key are equivalent without being the same item.
Keys == 1..MaxKey
Tags == {1, 2}
Items == [key : Keys, tag : Tags]

Less(a, b) == a.key < b.key

\* std::lower_bound(v.begin() + first, v.begin() + first + len, item) as the
\* binary search of the standard library; positions are 0-based offsets from
\* v.begin().
RECURSIVE lower_bound(_, _, _, _)
lower_bound(s, first, len, item) ==
    IF len = 0 THEN first
    ELSE LET half == len \div 2
             middle == first + half
         IN  IF Less(s[middle + 1], item)
             THEN lower_bound(s, middle + 1, len - half - 1, item)
             ELSE lower_bound(s, first, half, item)

\* v.insert(v.begin() + pos, item) of std::vector.
vector_insert(s, pos, item) ==
    SubSeq(s, 1, pos) \o <<item>> \o SubSeq(s, pos + 1, Len(s))

\* insert_sorted searching with upper_bound: the position after the items
\* that are not greater than item.
insert_sorted_UpperBound(s, item) ==
    LET pos == Cardinality({j \in 1..Len(s) : ~Less(item, s[j])})
    IN  vector_insert(s, pos, item)

\* insert_sorted(v, item): the vector after the call.
insert_sorted(s, item) ==
    LET pos == lower_bound(s, 0, Len(s), item)
    IN  vector_insert(s, pos, item)

\* insert_sorted_unique without the test item < *pos.
insert_sorted_unique_NoTest(s, item) ==
    IF Len(s) = 0 \/ Less(s[Len(s)], item)
    THEN [v |-> Append(s, item), ret |-> TRUE]
    ELSE LET pos == lower_bound(s, 0, Len(s), item)
         IN  [v |-> vector_insert(s, pos, item), ret |-> TRUE]

\* insert_sorted_unique(v, item): the vector after the call and the value
\* returned.
insert_sorted_unique(s, item) ==
    IF Len(s) = 0 \/ Less(s[Len(s)], item)
    THEN [v |-> Append(s, item), ret |-> TRUE]
    ELSE LET pos == lower_bound(s, 0, Len(s), item)
         IN  IF pos = Len(s) \/ Less(item, s[pos + 1])
             THEN [v |-> vector_insert(s, pos, item), ret |-> TRUE]
             ELSE [v |-> s, ret |-> FALSE]

\* ------------------------------------------------------------------ state
VARIABLES
    vec,     \* vec[i]: the members of vector object i (Dead outside its lifetime)
    heap,    \* heap[r]: the region handed out by the r-th allocation
    last,    \* the operation performed last, its arguments and its fault
    pushed,  \* pushed[i]: the values pushed onto i since its default construction,
             \* while only push_back has been applied to it; NoLog otherwise
    sorted,  \* the std::vector<T> the sorted-insert helpers are applied to
    lastSorted  \* the sorted-insert helper called last, its item and its result

vars == <<vec, heap, last, pushed, sorted, lastSorted>>

vectorVars == <<vec, heap, last, pushed>>

sortedVars == <<sorted, lastSorted>>

NoLog == <<Uninit>>

NoInst == 0

\* moved: the call left the object with another region than it had.
Record(op, self, other, n, m, val, fault, moved) ==
    [op |-> op, self |-> self, other |-> other, n |-> n, m |-> m, val |-> val,
     fault |-> fault, moved |-> moved]

Untrack(S) == [i \in Inst |-> IF i \in S THEN NoLog ELSE pushed[i]]

Init ==
    /\ vec = [i \in Inst |-> Dead]
    /\ heap = [r \in Regions |-> UnusedRegion]
    /\ last = [op |-> "init", self |-> NoInst, other |-> NoInst, n |-> 0, m |-> 0,
               val |-> Uninit, fault |-> "none", moved |-> FALSE]
    /\ pushed = [i \in Inst |-> NoLog]
    /\ sorted = <<>>
    /\ lastSorted = [op |-> "init", item |-> [key |-> 1, tag |-> 1], ret |-> TRUE]

\* --------------------------------------------------------------- actions
\* vector() noexcept = default
DefaultConstruct(i) ==
    /\ ~vec[i].alive
    /\ vec' = [vec EXCEPT ![i] = EmptyBase(DefaultAllocator)]
    /\ heap' = heap
    /\ last' = Record("vector()", i, NoInst, 0, 0, Uninit, "none", FALSE)
    /\ pushed' = [pushed EXCEPT ![i] = <<>>]

\* explicit vector(const allocator_type&)
AllocatorConstruct(i, al) ==
    /\ ~vec[i].alive
    /\ vec' = [vec EXCEPT ![i] = EmptyBase(al)]
    /\ heap' = heap
    /\ last' = Record("vector(allocator)", i, NoInst, al, 0, Uninit, "none", FALSE)
    /\ pushed' = Untrack({i})

\* explicit vector(count, proto, allocator)
CountConstructCall(i, count, proto, al) ==
    /\ ~vec[i].alive
    /\ \E o \in CountConstruct(heap, count, proto, al) :
          /\ vec' = [vec EXCEPT ![i] = o.v]
          /\ heap' = o.h
          /\ last' = Record("vector(count)", i, NoInst, count, al, proto, o.fault,
                            o.v.mBegin # NULL)
    /\ pushed' = Untrack({i})

\* vector(vector const& rhs) = default
CopyConstruct(i, j) ==
    /\ ~vec[i].alive /\ vec[j].alive
    /\ vec' = [vec EXCEPT ![i] = CopyConstructBase(vec[j])]
    /\ heap' = heap
    /\ last' = Record("vector(const&)", i, j, 0, 0, Uninit, "none",
                      vec'[i].mBegin # vec[i].mBegin)
    /\ pushed' = Untrack({i, j})

\* vector(vector&& rhs) = default
MoveConstruct(i, j) ==
    /\ ~vec[i].alive /\ vec[j].alive
    /\ LET r == MoveConstructBase(vec[j])
       IN  vec' = [vec EXCEPT ![i] = r[1], ![j] = r[2]]
    /\ heap' = heap
    /\ last' = Record("vector(&&)", i, j, 0, 0, Uninit, "none",
                      vec'[i].mBegin # vec[i].mBegin)
    /\ pushed' = Untrack({i, j})

\* vector& operator=(vector const& rhs) = default
CopyAssign(i, j) ==
    /\ vec[i].alive /\ vec[j].alive
    /\ vec' = [vec EXCEPT ![i] = CopyAssignBase(vec[i], vec[j])]
    /\ heap' = heap
    /\ last' = Record("operator=(const&)", i, j, 0, 0, Uninit, "none",
                      vec'[i].mBegin # vec[i].mBegin)
    /\ pushed' = Untrack({i, j})

\* vector& operator=(vector&& rhs) = default
MoveAssign(i, j) ==
    /\ vec[i].alive /\ vec[j].alive
    /\ LET r == MoveAssignBase(vec[i], vec[j], i = j)
       IN  vec' = [vec EXCEPT ![j] = r[2], ![i] = r[1]]
    /\ heap' = heap
    /\ last' = Record("operator=(&&)", i, j, 0, 0, Uninit, "none",
                      vec'[i].mBegin # vec[i].mBegin)
    /\ pushed' = Untrack({i, j})

\* ~vector()
Destroy(i) ==
    /\ vec[i].alive
    /\ vec' = [vec EXCEPT ![i] = Dead]
    /\ heap' = DestroyBase(vec[i], heap)
    /\ last' = Record("~vector()", i, NoInst, 0, 0, Uninit,
                      FreeFault(heap, vec[i].mBegin), FALSE)
    /\ pushed' = Untrack({i})

\* Applies one outcome of a member function of object i.
Apply(i, outcomes, op, n, m, val) ==
    \E o \in outcomes :
        /\ vec' = [vec EXCEPT ![i] = o.v]
        /\ heap' = o.h
        /\ last' = Record(op, i, NoInst, n, m, val, o.fault,
                         o.v.mBegin # vec[i].mBegin)

PushBack(i, val) ==
    /\ vec[i].alive /\ size(vec[i]) < MaxCount
    /\ Apply(i, push_back(vec[i], heap, val), "push_back", 0, 0, val)
    /\ pushed' = [pushed EXCEPT ![i] = IF @ = NoLog THEN NoLog ELSE Append(@, val)]

\* push_back((*this)[q]) requires q < size().
PushBackElement(i, q, kind) ==
    /\ vec[i].alive /\ size(vec[i]) < MaxCount /\ q < size(vec[i])
    /\ Apply(i, push_back_element(vec[i], heap, q, kind), "push_back(element)",
             q, kind, Uninit)
    /\ pushed' = Untrack({i})

EmplaceBack(i, val) ==
    /\ vec[i].alive /\ size(vec[i]) < MaxCount
    /\ Apply(i, emplace_back(vec[i], heap, val), "emplace_back", 0, 0, val)
    /\ pushed' = Untrack({i})

\* pop_back() requires a non-empty container.
PopBack(i) ==
    /\ vec[i].alive /\ size(vec[i]) > 0
    /\ vec' = [vec EXCEPT ![i] = pop_back(vec[i])]
    /\ heap' = heap
    /\ last' = Record("pop_back", i, NoInst, 0, 0, Uninit, "none", FALSE)
    /\ pushed' = Untrack({i})

\* insert(begin() + p, val) requires begin() + p in [begin(), end()].
Insert(i, p, val) ==
    /\ vec[i].alive /\ size(vec[i]) < MaxCount /\ p <= size(vec[i])
    /\ Apply(i, insert(vec[i], heap, p, val), "insert", p, 0, val)
    /\ pushed' = Untrack({i})

\* erase(begin() + p) requires begin() + p in [begin(), end()).
Erase(i, p) ==
    /\ vec[i].alive /\ p < size(vec[i])
    /\ Apply(i, erase(vec[i], heap, p), "erase", p, p + 1, Uninit)
    /\ pushed' = Untrack({i})

\* erase(begin() + f, begin() + l) requires begin() <= first <= last <= end().
EraseRange(i, f, l) ==
    /\ vec[i].alive /\ f <= l /\ l <= size(vec[i])
    /\ Apply(i, erase_range(vec[i], heap, f, l), "erase_range", f, l, Uninit)
    /\ pushed' = Untrack({i})

Clear(i) ==
    /\ vec[i].alive
    /\ vec' = [vec EXCEPT ![i] = clear(vec[i])]
    /\ heap' = heap
    /\ last' = Record("clear", i, NoInst, 0, 0, Uninit, "none", FALSE)
    /\ pushed' = Untrack({i})

Resize(i, count, val) ==
    /\ vec[i].alive
    /\ Apply(i, resize(vec[i], heap, count, val), "resize", count, 0, val)
    /\ pushed' = Untrack({i})

Swap(i, j) ==
    /\ vec[i].alive /\ vec[j].alive
    /\ LET r == swap(vec[i], vec[j])
       IN  vec' = [vec EXCEPT ![j] = r[2], ![i] = r[1]]
    /\ heap' = heap
    /\ last' = Record("swap", i, j, 0, 0, Uninit, "none",
                      vec'[i].mBegin # vec[i].mBegin)
    /\ pushed' = Untrack({i, j})

Reserve(i, n) ==
    /\ vec[i].alive
    /\ Apply(i, reserve(vec[i], heap, n), "reserve", n, 0, Uninit)
    /\ pushed' = Untrack({i})

ShrinkToFit(i) ==
    /\ vec[i].alive
    /\ Apply(i, shrink_to_fit(vec[i], heap), "shrink_to_fit", 0, 0, Uninit)
    /\ pushed' = Untrack({i})

\* A program with one vector object, applying every member function to it.
Single == {1}


Next ==
    /\ UNCHANGED sortedVars
    /\ \/ \E i \in Single : DefaultConstruct(i)
       \/ \E i \in Single, al \in Allocators : AllocatorConstruct(i, al)
       \/ \E i \in Single, count \in 0..MaxCount, proto \in Values, al \in Allocators :
              CountConstructCall(i, count, proto, al)
       \/ \E i \in Single : CopyAssign(i, i)
       \/ \E i \in Single : MoveAssign(i, i)
       \/ \E i \in Single : Destroy(i)
       \/ \E i \in Single, val \in Values : PushBack(i, val)
       \/ \E i \in Single, q \in 0..MaxCount, kind \in ElementKinds :
              PushBackElement(i, q, kind)
       \/ \E i \in Single, val \in Values : EmplaceBack(i, val)
       \/ \E i \in Single : PopBack(i)
       \/ \E i \in Single, p \in 0..MaxCount, val \in Values : Insert(i, p, val)
       \/ \E i \in Single, p \in 0..MaxCount : Erase(i, p)
       \/ \E i \in Single, f \in 0..MaxCount, l \in 0..MaxCount : EraseRange(i, f, l)
       \/ \E i \in Single : Clear(i)
       \/ \E i \in Single, count \in 0..MaxCount, val \in Values : Resize(i, count, val)
       \/ \E i \in Single : Swap(i, i)
       \/ \E i \in Single, n \in 0..(MaxCount + 1) : Reserve(i, n)
       \/ \E i \in Single : ShrinkToFit(i)

Spec == Init /\ [][Next]_vars

\* A program with two vector objects: construction, copy, move, swap and
\* destruction of both, and the mutations that show whether they share memory.
NextPair ==
    /\ UNCHANGED sortedVars
    /\ \/ \E i \in Inst : DefaultConstruct(i)
       \/ \E i \in Inst, al \in Allocators : AllocatorConstruct(i, al)
       \/ \E i \in Inst, count \in 0..MaxPairCount, proto \in Values, al \in Allocators :
              /\ CountConstructCall(i, count, proto, al)
              /\ Allocated(heap') <= MaxPairRegions
       \/ \E i, j \in Inst : CopyConstruct(i, j)
       \/ \E i, j \in Inst : MoveConstruct(i, j)
       \/ \E i, j \in Inst : i # j /\ CopyAssign(i, j)
       \/ \E i, j \in Inst : i # j /\ MoveAssign(i, j)
       \/ \E i, j \in Inst : Swap(i, j)
       \/ \E i \in Inst : Destroy(i)
       \/ \E i \in Inst, val \in Values :
              /\ size(vec[i]) < MaxPairCount
              /\ PushBack(i, val)
              /\ Allocated(heap') <= MaxPairRegions
       \/ \E i \in Inst, p \in 0..MaxPairCount : Erase(i, p)

SpecPair == Init /\ [][NextPair]_vars

\* A program that sizes an empty vector without a buffer to any count
\* size_type can hold.
WideCounts == 0..(SizeModulus - 1)

NextWide ==
    /\ UNCHANGED sortedVars
    /\ \/ DefaultConstruct(1)
       \/ \E n \in WideCounts, val \in Values :
              size(vec[1]) = 0 /\ capacity(vec[1]) = 0 /\ Resize(1, n, val)
       \/ Destroy(1)

SpecWide == Init /\ [][NextWide]_vars

\* A program that applies the sorted-insert helpers to an ascending
\* std::vector<T>.
Ascending(s) == \A j \in 1..(Len(s) - 1) : ~Less(s[j + 1], s[j])

StrictlyAscending(s) == \A j \in 1..(Len(s) - 1) : Less(s[j], s[j + 1])

AscendingVectors ==
    {s \in UNION {[1..n -> Items] : n \in 0..MaxSortedLen} : Ascending(s)}

InitSorted ==
    /\ vec = [i \in Inst |-> Dead]
    /\ heap = [r \in Regions |-> UnusedRegion]
    /\ last = [op |-> "init", self |-> NoInst, other |-> NoInst, n |-> 0, m |-> 0,
               val |-> Uninit, fault |-> "none", moved |-> FALSE]
    /\ pushed = [i \in Inst |-> NoLog]
    /\ sorted \in AscendingVectors
    /\ lastSorted = [op |-> "init", item |-> [key |-> 1, tag |-> 1], ret |-> TRUE]

\* insert_sorted(v, item) returns nothing; ret is recorded as TRUE.
InsertSorted(item) ==
    /\ Len(sorted) <= MaxSortedLen
    /\ sorted' = insert_sorted(sorted, item)
    /\ lastSorted' = [op |-> "insert_sorted", item |-> item, ret |-> TRUE]
    /\ UNCHANGED vectorVars

InsertSortedUnique(item) ==
    /\ Len(sorted) <= MaxSortedLen
    /\ LET r == insert_sorted_unique(sorted, item)
       IN  /\ sorted' = r.v
           /\ lastSorted' = [op |-> "insert_sorted_unique", item |-> item,
                             ret |-> r.ret]
    /\ UNCHANGED vectorVars

NextSorted ==
    \/ \E item \in Items : InsertSorted(item)
    \/ \E item \in Items : InsertSortedUnique(item)

SpecSorted == InitSorted /\ [][NextSorted]_vars

\* ---------------------------------------------------------------- claims
\* The elements [0, size) of v lie inside its own live region, so that
\* [begin(), end()) is a range of valid iterators.
WellFormed(v, h) ==
    /\ v.alive
    /\ v.mItemCount <= v.mCapacity
    /\ v.mBegin = NULL => v.mCapacity = 0
    /\ v.mBegin # NULL => /\ h[v.mBegin].st = "live"
                          /\ Len(h[v.mBegin].data) = v.mCapacity
    /\ \A j \in 1..v.mItemCount : Elems(v, h)[j] \in Values

\* s without its elements at the 0-based indices [f, l).
RemoveSpan(s, f, l) ==
    [j \in 1..(Len(s) - (l - f)) |-> IF j <= f THEN s[j] ELSE s[j + (l - f)]]

\* s with val put before its element at the 0-based index p.
InsertAt(s, p, val) ==
    [j \in 1..(Len(s) + 1) |->
        IF j <= p THEN s[j] ELSE IF j = p + 1 THEN val ELSE s[j - 1]]

AllDead == \A i \in Inst : ~vec[i].alive

\* C1: every region obtained from the allocator is released exactly once
\* (never twice, and not zero times once every object is destroyed), and at
\* every moment at most one live object holds a given region.
C1_SingleOwnerReleasedOnce ==
    /\ \A r \in Regions : heap[r].frees <= 1
    /\ \A i, j \in Inst :
          (i # j /\ vec[i].alive /\ vec[j].alive /\ vec[i].mBegin # NULL)
              => vec[i].mBegin # vec[j].mBegin
    /\ AllDead => \A r \in Regions : heap[r].st # "live"

\* C2: after b is copy-constructed or copy-assigned from a, b has a's size and
\* a's elements in order in a region of its own, and a later operation on one
\* of two objects leaves the size and the elements of the other unchanged.
C2_CopyIsDeep ==
    [][/\ (last'.op \in {"vector(const&)", "operator=(const&)"}
              /\ last'.self # last'.other)
           => LET b == last'.self
                  a == last'.other
              IN  /\ size(vec'[b]) = size(vec[a])
                  /\ Elems(vec'[b], heap') = Elems(vec[a], heap)
                  /\ Elems(vec'[a], heap') = Elems(vec[a], heap)
                  /\ vec[a].mBegin # NULL => vec'[b].mBegin # vec'[a].mBegin
       /\ \A i, j \in Inst :
             (/\ i # j /\ vec[j].alive
              /\ last'.self = i
              /\ last'.op \in {"push_back", "erase", "~vector()"})
             => /\ size(vec'[j]) = size(vec[j])
                /\ Elems(vec'[j], heap') = Elems(vec[j], heap)
      ]_vars

\* C3: in every reachable state the item count of a live object is at most its
\* capacity, and its region is non-null whenever its capacity is above zero.
C3_CountWithinCapacity ==
    \A i \in Inst :
        vec[i].alive => /\ vec[i].mItemCount <= vec[i].mCapacity
                        /\ vec[i].mCapacity > 0 => vec[i].mBegin # NULL

\* C4: after b = move(a) with a and b distinct, whatever b held, b holds a's
\* original elements in order and a is empty and owns no region.
C4_MoveAssignEmptiesSource ==
    [][(last'.op = "operator=(&&)" /\ last'.self # last'.other)
          => LET b == last'.self
                 a == last'.other
             IN  /\ Elems(vec'[b], heap') = Elems(vec[a], heap)
                 /\ size(vec'[a]) = 0
                 /\ vec'[a].mBegin = NULL
      ]_vars

\* C5: after b is move-constructed from a, b has a's original region, size,
\* capacity and elements in order, a is in the empty state (size 0, capacity
\* 0, null region), and destroying a or pushing onto a right afterwards
\* leaves b's region untouched.
C5_MoveConstructTransfers ==
    [][/\ last'.op = "vector(&&)"
           => LET b == last'.self
                  a == last'.other
              IN  /\ vec'[b].alive
                  /\ vec'[b].mBegin = vec[a].mBegin
                  /\ size(vec'[b]) = size(vec[a])
                  /\ capacity(vec'[b]) = capacity(vec[a])
                  /\ Elems(vec'[b], heap') = Elems(vec[a], heap)
                  /\ heap' = heap
                  /\ vec'[a].alive
                  /\ size(vec'[a]) = 0
                  /\ capacity(vec'[a]) = 0
                  /\ vec'[a].mBegin = NULL
       /\ (/\ last.op = "vector(&&)"
           /\ last'.self = last.other
           /\ last'.op \in {"~vector()", "push_back"})
           => LET b == last.self
              IN  /\ vec'[b] = vec[b]
                  /\ vec[b].mBegin # NULL
                        => heap'[vec[b].mBegin] = heap[vec[b].mBegin]
      ]_vars

\* C5 witness: b was move-constructed from a vector holding <<1, 2>>.
C5_Witness ==
    /\ last.op = "vector(&&)"
    /\ WellFormed(vec[last.self], heap)
    /\ Elems(vec[last.self], heap) = <<1, 2>>
    /\ vec[last.other].alive
    /\ vec[last.other].mBegin = NULL

\* C6: insert(begin() + p, val) for every p in [0, size], also when size ==
\* capacity: the size grows by 1, the sequence is the old one with val put
\* before index p, and no released region is read or written.
C6_InsertShiftsTail ==
    [][(last'.op = "insert" /\ WellFormed(vec[last'.self], heap))
          => LET i == last'.self
             IN  /\ last'.fault = "none"
                 /\ size(vec'[i]) = size(vec[i]) + 1
                 /\ Elems(vec'[i], heap')
                       = InsertAt(Elems(vec[i], heap), last'.n, last'.val)
      ]_vars

\* C7: after reserve(n), for every n, the capacity is at least n and not
\* smaller than before, and the size and the elements are as before.
C7_ReserveKeepsContents ==
    [][(last'.op = "reserve" /\ WellFormed(vec[last'.self], heap))
          => LET i == last'.self
             IN  /\ capacity(vec'[i]) >= last'.n
                 /\ capacity(vec'[i]) >= capacity(vec[i])
                 /\ size(vec'[i]) = size(vec[i])
                 /\ Elems(vec'[i], heap') = Elems(vec[i], heap)
      ]_vars

\* C8: a default-constructed container to which only push_back was applied
\* has as many elements as were pushed, element i being the i-th pushed value;
\* each such push_back grows the size by 1, makes the last element the value
\* passed and keeps the earlier elements, also when it reallocates.
C8_PushBackSequence ==
    [][\A i \in Inst :
          /\ pushed'[i] # NoLog
                => /\ size(vec'[i]) = Len(pushed'[i])
                   /\ Elems(vec'[i], heap') = pushed'[i]
          /\ (pushed[i] # NoLog /\ last'.op = "push_back" /\ last'.self = i)
                => /\ last'.fault = "none"
                   /\ size(vec'[i]) = size(vec[i]) + 1
                   /\ Elems(vec'[i], heap')[size(vec'[i])] = last'.val
                   /\ \A j \in 1..size(vec[i]) :
                         Elems(vec'[i], heap')[j] = Elems(vec[i], heap)[j]
      ]_vars

\* C8 witness: three values were pushed onto an empty container and the third
\* push_back reallocated.
C8_Witness ==
    /\ pushed[1] = <<1, 2, 1>>
    /\ last.op = "push_back"
    /\ last.moved
    /\ Elems(vec[1], heap) = <<1, 2, 1>>

GrowthOps == {"push_back", "emplace_back", "insert", "resize"}

\* C9: a growth-inducing operation (push_back, emplace_back, insert, resize)
\* never lowers the capacity, and when it changed the capacity, the capacity
\* is at least the size afterwards.
C9_CapacityMonotone ==
    [][last'.op \in GrowthOps
          => LET i == last'.self
             IN  /\ capacity(vec'[i]) >= capacity(vec[i])
                 /\ capacity(vec'[i]) # capacity(vec[i])
                       => capacity(vec'[i]) >= size(vec'[i])
      ]_vars

\* C9 witness: a resize to a larger count has grown the buffer.
C9_Witness ==
    /\ last.op = "resize"
    /\ last.moved
    /\ last.n = MaxCount
    /\ size(vec[last.self]) = MaxCount
    /\ capacity(vec[last.self]) > MaxCount

\* C10: erase(begin() + p) and erase(begin() + f, begin() + l) on a range of
\* valid iterators remove exactly the elements of the span and keep the order
\* of the others; the size drops by the length of the span (0 for an empty
\* one) and the capacity and the region stay as they were.
C10_EraseRemovesSpan ==
    [][(last'.op \in {"erase", "erase_range"} /\ WellFormed(vec[last'.self], heap))
          => LET i == last'.self
                 f == last'.n
                 l == last'.m
             IN  /\ last'.fault = "none"
                 /\ Elems(vec'[i], heap') = RemoveSpan(Elems(vec[i], heap), f, l)
                 /\ size(vec'[i]) = size(vec[i]) - (l - f)
                 /\ capacity(vec'[i]) = capacity(vec[i])
                 /\ vec'[i].mBegin = vec[i].mBegin
                 /\ vec[i].mBegin # NULL
                       => heap'[vec[i].mBegin].st = heap[vec[i].mBegin].st
      ]_vars

\* C10 witness: the middle element of a three-element sequence was erased.
C10_Witness ==
    /\ last.op = "erase"
    /\ last.n = 1
    /\ last.fault = "none"
    /\ WellFormed(vec[last.self], heap)
    /\ Elems(vec[last.self], heap) = <<1, 2>>

\* C11: resize(count, value) on a container of size k.  When count > k the
\* size becomes count, the elements [k, count) equal value and the elements
\* [0, k) are as before, also when the call reallocates; when count <= k the
\* size becomes count, the elements [0, count) are as before and the capacity
\* is unchanged.  A resize that follows a resize is covered like any other.
C11_ResizeFillsOrTruncates ==
    [][(last'.op = "resize" /\ WellFormed(vec[last'.self], heap))
          => LET i == last'.self
                 k == size(vec[i])
                 count == last'.n
                 old == Elems(vec[i], heap)
                 new == Elems(vec'[i], heap')
             IN  /\ last'.fault = "none"
                 /\ size(vec'[i]) = count
                 /\ count > k => /\ \A j \in (k + 1)..count : new[j] = last'.val
                                 /\ \A j \in 1..k : new[j] = old[j]
                 /\ count <= k => /\ \A j \in 1..count : new[j] = old[j]
                                  /\ capacity(vec'[i]) = capacity(vec[i])
      ]_vars

\* C11 witness: a one-element container was resized to three elements with
\* value 2 and the call reallocated.
C11_Witness ==
    /\ last.op = "resize"
    /\ last.moved
    /\ last.n = 3
    /\ last.val = 2
    /\ WellFormed(vec[last.self], heap)
    /\ Elems(vec[last.self], heap) = <<1, 2, 2>>

\* The first position of s (0-based) whose item is not less than item.
FirstNotLess(s, item) == Cardinality({j \in 1..Len(s) : Less(s[j], item)})

HasEquivalent(s, item) ==
    \E j \in 1..Len(s) : ~Less(s[j], item) /\ ~Less(item, s[j])

\* C12: insert_sorted_unique(v, item) on a strictly ascending vector (the
\* empty one included) returns true exactly when no item equivalent to item
\* was present; on false the vector is unchanged; on true the vector is
\* strictly ascending, one longer and contains item, and it is what the
\* lower-bound insertion gives, whether or not the append fast path was taken.
C12_InsertSortedUnique ==
    [][(lastSorted'.op = "insert_sorted_unique" /\ StrictlyAscending(sorted))
          => LET item == lastSorted'.item
             IN  /\ lastSorted'.ret = ~HasEquivalent(sorted, item)
                 /\ ~lastSorted'.ret => sorted' = sorted
                 /\ lastSorted'.ret
                       => /\ StrictlyAscending(sorted')
                          /\ Len(sorted') = Len(sorted) + 1
                          /\ \E j \in 1..Len(sorted') : sorted'[j] = item
                          /\ sorted' = InsertAt(sorted, FirstNotLess(sorted, item),
                                                item)
      ]_vars

\* C12 witness: an item was inserted in the middle of a strictly ascending
\* vector, not by the append fast path.
C12_Witness ==
    /\ lastSorted.op = "insert_sorted_unique"
    /\ lastSorted.ret
    /\ Len(sorted) = 3
    /\ StrictlyAscending(sorted)
    /\ sorted[2] = lastSorted.item

\* C13: insert_sorted(v, item) on an ascending vector (duplicates allowed):
\* afterwards the vector is ascending, one longer, and is the old vector with
\* item put at the first position whose old item is not less than item, so
\* before every original item equivalent to it.
C13_InsertSorted ==
    [][(lastSorted'.op = "insert_sorted" /\ Ascending(sorted))
          => LET item == lastSorted'.item
                 pos == FirstNotLess(sorted, item)
             IN  /\ Ascending(sorted')
                 /\ Len(sorted') = Len(sorted) + 1
                 /\ sorted' = InsertAt(sorted, pos, item)
                 /\ \A j \in 1..Len(sorted) :
                       ~Less(sorted[j], item) => j > pos
      ]_vars

\* C13 witness: an item was inserted before an original item equivalent to it
\* and after a smaller one.
C13_Witness ==
    /\ lastSorted.op = "insert_sorted"
    /\ Len(sorted) = 3
    /\ sorted[2] = lastSorted.item
    /\ sorted[3] # sorted[2]
    /\ sorted[3].key = sorted[2].key
    /\ Less(sorted[1], sorted[2])

\* The regions are in the same allocation state, of the same length and
\* released as often in h2 as in h1.
SameAllocations(h1, h2) ==
    \A r \in Regions : /\ h2[r].st = h1[r].st
                       /\ h2[r].frees = h1[r].frees
                       /\ Len(h2[r].data) = Len(h1[r].data)

\* C14: clear(), pop_back() on a non-empty container, erase on valid
\* iterators and resize to a count not above the size allocate and release
\* nothing: the capacity and the region are the same after the call; clear()
\* makes the size 0 and pop_back() lowers it by 1 and keeps the elements
\* [0, size - 1).
C14_ShrinkingKeepsBuffer ==
    [][/\ (\/ last'.op \in {"clear", "pop_back"}
           \/ /\ last'.op \in {"erase", "erase_range"}
              /\ WellFormed(vec[last'.self], heap)
           \/ /\ last'.op = "resize"
              /\ last'.n <= size(vec[last'.self])
              /\ WellFormed(vec[last'.self], heap))
          => LET i == last'.self
             IN  /\ capacity(vec'[i]) = capacity(vec[i])
                 /\ vec'[i].mBegin = vec[i].mBegin
                 /\ SameAllocations(heap, heap')
       /\ last'.op = "clear" => size(vec'[last'.self]) = 0
       /\ last'.op = "pop_back"
          => LET i == last'.self
             IN  /\ size(vec'[i]) = size(vec[i]) - 1
                 /\ \A j \in 1..(size(vec[i]) - 1) :
                       Elems(vec'[i], heap')[j] = Elems(vec[i], heap)[j]
      ]_vars

\* C14 witness: clear() was called on a container that holds a buffer.
C14_Witness ==
    /\ last.op = "clear"
    /\ size(vec[last.self]) = 0
    /\ capacity(vec[last.self]) = MaxCount
    /\ heap[vec[last.self].mBegin].st = "live"

\* C15: swap(other) leaves each of the two objects with exactly the region,
\* item count, capacity and allocator the other had, and the heap as it was;
\* swapping the two again gives back the states before the call, and swapping
\* an object with itself leaves it unchanged.
C15_SwapExchanges ==
    [][last'.op = "swap"
          => LET i == last'.self
                 j == last'.other
             IN  /\ vec'[i] = vec[j]
                 /\ vec'[j] = vec[i]
                 /\ \A k \in Inst \ {i, j} : vec'[k] = vec[k]
                 /\ heap' = heap
                 /\ swap(vec'[i], vec'[j]) = <<vec[i], vec[j]>>
      ]_vars

\* C15 witness: two objects with different allocators, regions and sizes were
\* swapped.
C15_Witness ==
    /\ last.op = "swap"
    /\ last.self # last.other
    /\ vec[last.self].mAllocator # vec[last.other].mAllocator
    /\ vec[last.self].mBegin # NULL
    /\ vec[last.other].mBegin # NULL
    /\ size(vec[last.self]) = 2
    /\ size(vec[last.other]) = 1

\* C16: set_capacity(n), as called by reserve(n) and by shrink_to_fit() with
\* n = size().  When n is the capacity nothing changes.  Otherwise one new
\* region of n items is obtained (a request for 0 items may yield the null
\* pointer), the first min(item count, n) items are copied into it in order,
\* the old region is released exactly once, the new region is adopted and the
\* capacity is n.  The item count is as before.
C16_SetCapacityReallocates ==
    [][(last'.op \in {"reserve", "shrink_to_fit"}
           /\ WellFormed(vec[last'.self], heap))
          => LET i == last'.self
                 n == IF last'.op = "reserve" THEN last'.n ELSE size(vec[i])
                 old == vec[i].mBegin
                 new == vec'[i].mBegin
                 k == Min(size(vec[i]), n)
             IN  /\ size(vec'[i]) = size(vec[i])
                 /\ n = capacity(vec[i]) => (vec' = vec /\ heap' = heap)
                 /\ n # capacity(vec[i])
                       => /\ capacity(vec'[i]) = n
                          /\ last'.fault = "none"
                          /\ new = NULL => n = 0
                          /\ new # NULL => /\ heap[new].st = "unused"
                                           /\ heap'[new].st = "live"
                                           /\ Len(heap'[new].data) = n
                          /\ \A j \in 1..k :
                                heap'[new].data[j] = Elems(vec[i], heap)[j]
                          /\ old # NULL => /\ heap'[old].st = "released"
                                           /\ heap'[old].frees = 1
                          /\ \A r \in Regions \ {old, new} : heap'[r] = heap[r]
      ]_vars

\* C16 witness: shrink_to_fit() moved a two-element container into a region
\* of two items.
C16_Witness ==
    /\ last.op = "shrink_to_fit"
    /\ last.moved
    /\ capacity(vec[last.self]) = 2
    /\ Elems(vec[last.self], heap) = <<1, 2>>
    /\ WellFormed(vec[last.self], heap)

\* The count an operation passes to assert_capacity_for_size.
Requested(op, this, n) == IF op = "resize" THEN n ELSE size(this) + 1

\* C17: assert_capacity_for_size(n) with capacity < n, as called by push_back,
\* emplace_back, insert and resize: afterwards the capacity is exactly
\* (n * 3 + 1) / 2 (integer division), whatever the capacity was, the item
\* count is n, the old items are in the new region in order, and the position
\* returned is the slot at the index of the old item count in the new region
\* (push_back and emplace_back write their value there).  What insert writes
\* after the call is not part of this statement.
C17_GrowthFromRequest ==
    [][(/\ last'.op \in GrowthOps
        /\ WellFormed(vec[last'.self], heap)
        /\ capacity(vec[last'.self])
              < Requested(last'.op, vec[last'.self], last'.n))
          => LET i == last'.self
                 n == Requested(last'.op, vec[i], last'.n)
                 new == vec'[i].mBegin
             IN  /\ capacity(vec'[i]) = (n * 3 + 1) \div 2
                 /\ size(vec'[i]) = n
                 /\ new # NULL /\ new # vec[i].mBegin
                 /\ heap[new].st = "unused" /\ heap'[new].st = "live"
                 /\ Len(heap'[new].data) = capacity(vec'[i])
                 /\ last'.op # "insert"
                       => \A j \in 1..size(vec[i]) :
                             heap'[new].data[j] = Elems(vec[i], heap)[j]
                 /\ last'.op \in {"push_back", "emplace_back"}
                       => heap'[new].data[size(vec[i]) + 1] = last'.val
      ]_vars

\* C17 witness: push_back on a full two-element container asked for 3 items
\* and got a capacity of 5.
C17_Witness ==
    /\ last.op = "push_back"
    /\ last.moved
    /\ size(vec[last.self]) = 3
    /\ capacity(vec[last.self]) = 5
    /\ Elems(vec[last.self], heap) = <<1, 1, 2>>

\* C18: for every count n of size_type, assert_capacity_for_size(n), here
\* called by resize(n) on a container without a buffer, leaves the capacity at
\* least n.
C18_GrowthNeverWraps ==
    [][last'.op = "resize"
          => capacity(vec'[last'.self]) >= last'.n
      ]_vars

\* C19: when the capacity covers the requested count, push_back, emplace_back,
\* insert and resize allocate and release nothing and leave the region and the
\* capacity as they were; the item count becomes the requested count, and the
\* cells below the old item count that the operation does not write, and all
\* other regions, are unchanged.
C19_NoRelocationWithinCapacity ==
    [][(/\ last'.op \in GrowthOps
        /\ capacity(vec[last'.self])
              >= Requested(last'.op, vec[last'.self], last'.n))
          => LET i == last'.self
                 n == Requested(last'.op, vec[i], last'.n)
                 p == vec[i].mBegin
             IN  /\ vec'[i].mBegin = p
                 /\ capacity(vec'[i]) = capacity(vec[i])
                 /\ ~last'.moved
                 /\ size(vec'[i]) = n
                 /\ SameAllocations(heap, heap')
                 /\ \A r \in Regions \ {p} : heap'[r] = heap[r]
                 /\ (p # NULL /\ last'.op # "insert")
                       => \A j \in 1..Min(size(vec[i]), Len(heap[p].data)) :
                             heap'[p].data[j] = heap[p].data[j]
      ]_vars

\* C19 witness: push_back wrote the second slot of a buffer of two items.
C19_Witness ==
    /\ last.op = "push_back"
    /\ ~last.moved
    /\ last.fault = "none"
    /\ capacity(vec[last.self]) = 2
    /\ Elems(vec[last.self], heap) = <<1, 2>>

\* C20: push_back((*this)[q]) that makes the container grow appends the value
\* element q had before the call and reads no released region, whether the
\* element type is passed by value or by reference.
C20_PushBackOfOwnElement ==
    [][(/\ last'.op = "push_back(element)"
        /\ last'.moved
        /\ WellFormed(vec[last'.self], heap))
          => LET i == last'.self
                 q == last'.n
             IN  /\ last'.fault = "none"
                 /\ size(vec'[i]) = size(vec[i]) + 1
                 /\ Elems(vec'[i], heap')[size(vec'[i])]
                       = Elems(vec[i], heap)[q + 1]
      ]_vars

====
